---- MODULE Spec2Model ----
(***************************************************************************)
(* Model of the store-publishing core of shopware-cli (package             *)
(* account_api): the ProducerEndpoint operations on extension binaries,    *)
(* icons, gallery images and code reviews, the BinaryReviewResult          *)
(* classification methods, and the SoftwareVersionList filters.            *)
(*                                                                         *)
(* Three specifications share the module:                                  *)
(*   Spec        the ProducerEndpoint operations (one action per method)   *)
(*   SpecReview  the pure methods of BinaryReviewResult                    *)
(*   SpecFilter  the pure methods of SoftwareVersionList                   *)
(***************************************************************************)
EXTENDS Integers, Sequences, FiniteSets, TLC

VARIABLES
    last,         \* what the most recent ProducerEndpoint call did and returned
    calls,        \* number of ProducerEndpoint calls made so far
    openHandles,  \* os.File handles opened by the calls and not closed
    review,       \* the BinaryReviewResult a method is applied to
    rmethod,      \* the BinaryReviewResult method applied last
    rret,         \* its return value
    list,         \* the SoftwareVersionList a filter is applied to
    constraint,   \* the version constraint handed to the filter
    fmethod,      \* the SoftwareVersionList method applied last
    fret          \* its return value

vars == <<last, calls, openHandles, review, rmethod, rret,
          list, constraint, fmethod, fret>>

opVars == <<last, calls, openHandles>>
reviewVars == <<review, rmethod, rret>>
filterVars == <<list, constraint, fmethod, fret>>

\* ------------------------------------------------------------------------
\* Bounds
\* ------------------------------------------------------------------------
MaxCalls == 3
MaxImages == 2
MaxSubChecks == 2
MaxLen == 3

\* ------------------------------------------------------------------------
\* Program constants
\* ------------------------------------------------------------------------
IconSize == 256
SuccessTypeId == 3
PendingTypeId == 4
SuccessTypeName == "automaticcodereviewsucceeded"

\* ------------------------------------------------------------------------
\* ProducerEndpoint operations
\* ------------------------------------------------------------------------

\* The fallible steps an operation performs.  The environment chooses at
\* most one step that fails when it is run (failAt); "none" means all succeed.
Steps == {"Marshal", "CreateFormFile", "Open", "Decode", "Encode", "Seek",
          "Copy", "FileClose", "WriterClose", "NewRequest", "doRequest",
          "Unmarshal"}

FailChoices == Steps \cup {"none"}

\* Multipart / JSON bodies handed to a request.
NoPayload == [src |-> "none", format |-> "none", w |-> 0, h |-> 0]
JsonPayload == [src |-> "json", format |-> "json", w |-> 0, h |-> 0]
FilePayload == [src |-> "file", format |-> "raw", w |-> 0, h |-> 0]
\* the original byte stream of an icon file
OriginalBytes(img) ==
    [src |-> "file", format |-> img.format, w |-> img.w, h |-> img.h]
\* png.Encode of image.NewRGBA(image.Rect(0, 0, 256, 256))
EncodedCanvas ==
    [src |-> "encoded", format |-> "png", w |-> IconSize, h |-> IconSize]

\* Local icon files: an image of some format and natural dimensions.
IconFormats == {"png", "jpeg", "gif"}
IconDims == {128, 256, 512}
Icons == [format : IconFormats, w : IconDims, h : IconDims]
NoIcon == [format |-> "none", w |-> 0, h |-> 0]

\* Decoded list bodies the pictures endpoint can answer with (image ids).
ImageIds == {1, 2}
Responses == UNION {[1..n -> ImageIds] : n \in 0..MaxImages}

\* Errors: an underlying error names the step that produced it; fmt.Errorf
\* with the operation's errorFormat puts the operation's label in front.
NoErr == [label |-> "none", cause |-> "none"]
Raw(step) == [label |-> "none", cause |-> step]
Wrap(label, step) == [label |-> label, cause |-> step]

Request(method, endpoint, payload) ==
    [method |-> method, endpoint |-> endpoint, payload |-> payload]

\* The observable effect of one call.  (Record constructors throughout the
\* module list their fields in one fixed order, the order TLC keeps them in.)
Result(op, failAt, icon, resp, outcome, err, requests, opened, closed, value) ==
    [op |-> op, failAt |-> failAt, icon |-> icon, resp |-> resp,
     outcome |-> outcome, err |-> err, requests |-> requests,
     opened |-> opened, closed |-> closed, value |-> value]

\* return fmt.Errorf(errorFormat, err) before any request was issued
Abort(op, failAt, icon, resp, opened, closed) ==
    Result(op, failAt, icon, resp, "error", Wrap(op, failAt), <<>>,
           opened, closed, 0)

\* _, err = e.c.doRequest(r); return err
ReturnRequestErr(op, failAt, icon, req, opened, closed) ==
    IF failAt = "doRequest"
    THEN Result(op, failAt, icon, <<>>, "error", Raw("doRequest"), <<req>>,
                opened, closed, 0)
    ELSE Result(op, failAt, icon, <<>>, "ok", NoErr, <<req>>,
                opened, closed, 0)

\* body, err := e.c.doRequest(r); if err != nil { wrap }; json.Unmarshal(body,
\* &x); if err != nil { wrap }; return x, nil
DecodeResponse(op, failAt, req, opened, closed) ==
    IF failAt = "doRequest"
    THEN Result(op, failAt, NoIcon, <<>>, "error", Wrap(op, "doRequest"),
                <<req>>, opened, closed, 0)
    ELSE IF failAt = "Unmarshal"
    THEN Result(op, failAt, NoIcon, <<>>, "error", Wrap(op, "Unmarshal"),
                <<req>>, opened, closed, 0)
    ELSE Result(op, failAt, NoIcon, <<>>, "ok", NoErr, <<req>>,
                opened, closed, 0)

GetExtensionBinaries(failAt) ==
    LET op == "GetExtensionBinaries" IN
    IF failAt = "NewRequest" THEN Abort(op, failAt, NoIcon, <<>>, FALSE, FALSE)
    ELSE DecodeResponse(op, failAt, Request("GET", "binaries", NoPayload),
                        FALSE, FALSE)

UpdateExtensionBinaryInfo(failAt) ==
    LET op == "UpdateExtensionBinaryInfo" IN
    IF failAt = "Marshal" THEN Abort(op, failAt, NoIcon, <<>>, FALSE, FALSE)
    ELSE IF failAt = "NewRequest"
    THEN Abort(op, failAt, NoIcon, <<>>, FALSE, FALSE)
    ELSE ReturnRequestErr(op, failAt, NoIcon,
                          Request("PUT", "binaries/id", JsonPayload),
                          FALSE, FALSE)

CreateExtensionBinary(failAt) ==
    LET op == "CreateExtensionBinary" IN
    IF failAt = "Marshal" THEN Abort(op, failAt, NoIcon, <<>>, FALSE, FALSE)
    ELSE IF failAt = "NewRequest"
    THEN Abort(op, failAt, NoIcon, <<>>, FALSE, FALSE)
    ELSE DecodeResponse(op, failAt, Request("POST", "binaries", JsonPayload),
                        FALSE, FALSE)

\* zipFile is opened at line 202 and no path closes it.
UpdateExtensionBinaryFile(failAt) ==
    LET op == "UpdateExtensionBinaryFile" IN
    IF failAt = "CreateFormFile"
    THEN Abort(op, failAt, NoIcon, <<>>, FALSE, FALSE)
    ELSE IF failAt = "Open" THEN Abort(op, failAt, NoIcon, <<>>, FALSE, FALSE)
    ELSE IF failAt = "Copy" THEN Abort(op, failAt, NoIcon, <<>>, TRUE, FALSE)
    ELSE IF failAt = "WriterClose"
    THEN Abort(op, failAt, NoIcon, <<>>, TRUE, FALSE)
    ELSE IF failAt = "NewRequest"
    THEN Abort(op, failAt, NoIcon, <<>>, TRUE, FALSE)
    ELSE ReturnRequestErr(op, failAt, NoIcon,
                          Request("POST", "binaries/id/file", FilePayload),
                          TRUE, FALSE)

\* The size test with && in place of ||.
NeedsResizeBothOff(icon) == icon.w # IconSize /\ icon.h # IconSize

\* img.Bounds().Dx() != 256 || img.Bounds().Dy() != 256
NeedsResize(icon) == icon.w # IconSize \/ icon.h # IconSize

\* iconFile.Close(), w.Close(), NewAuthenticatedRequest, doRequest: the tail
\* of UpdateExtensionIcon once the form file holds the payload.
IconUpload(failAt, icon, payload) ==
    LET op == "UpdateExtensionIcon" IN
    IF failAt = "FileClose" THEN Abort(op, failAt, icon, <<>>, TRUE, TRUE)
    ELSE IF failAt = "WriterClose"
    THEN Abort(op, failAt, icon, <<>>, TRUE, TRUE)
    ELSE IF failAt = "NewRequest"
    THEN Abort(op, failAt, icon, <<>>, TRUE, TRUE)
    ELSE ReturnRequestErr(op, failAt, icon,
                          Request("POST", "icon", payload), TRUE, TRUE)

\* UpdateExtensionIcon that goes on to upload after image.Decode failed.
UpdateExtensionIconIgnoringDecode(failAt, icon) ==
    LET op == "UpdateExtensionIcon" IN
    IF failAt = "CreateFormFile"
    THEN Abort(op, failAt, icon, <<>>, FALSE, FALSE)
    ELSE IF failAt = "Open" THEN Abort(op, failAt, icon, <<>>, FALSE, FALSE)
    ELSE IF NeedsResize(icon)
    THEN IF failAt = "Encode"
         THEN Abort(op, failAt, icon, <<>>, TRUE, FALSE)
         ELSE IconUpload(failAt, icon, EncodedCanvas)
    ELSE IF failAt = "Seek" THEN Abort(op, failAt, icon, <<>>, TRUE, FALSE)
    ELSE IF failAt = "Copy" THEN Abort(op, failAt, icon, <<>>, TRUE, FALSE)
    ELSE IconUpload(failAt, icon, OriginalBytes(icon))

\* iconFile is closed only at line 269, after the payload was written: the
\* returns at lines 246, 256, 262 and 265 leave it open.
UpdateExtensionIcon(failAt, icon) ==
    LET op == "UpdateExtensionIcon" IN
    IF failAt = "CreateFormFile"
    THEN Abort(op, failAt, icon, <<>>, FALSE, FALSE)
    ELSE IF failAt = "Open" THEN Abort(op, failAt, icon, <<>>, FALSE, FALSE)
    ELSE IF failAt = "Decode" THEN Abort(op, failAt, icon, <<>>, TRUE, FALSE)
    ELSE IF NeedsResize(icon)
    THEN IF failAt = "Encode"
         THEN Abort(op, failAt, icon, <<>>, TRUE, FALSE)
         ELSE IconUpload(failAt, icon, EncodedCanvas)
    ELSE IF failAt = "Seek" THEN Abort(op, failAt, icon, <<>>, TRUE, FALSE)
    ELSE IF failAt = "Copy" THEN Abort(op, failAt, icon, <<>>, TRUE, FALSE)
    ELSE IconUpload(failAt, icon, OriginalBytes(icon))

GetExtensionImages(failAt) ==
    LET op == "GetExtensionImages" IN
    IF failAt = "NewRequest" THEN Abort(op, failAt, NoIcon, <<>>, FALSE, FALSE)
    ELSE DecodeResponse(op, failAt, Request("GET", "pictures", NoPayload),
                        FALSE, FALSE)

DeleteExtensionImages(failAt) ==
    LET op == "DeleteExtensionImages" IN
    IF failAt = "NewRequest" THEN Abort(op, failAt, NoIcon, <<>>, FALSE, FALSE)
    ELSE ReturnRequestErr(op, failAt, NoIcon,
                          Request("DELETE", "pictures/id", NoPayload),
                          FALSE, FALSE)

UpdateExtensionImage(failAt) ==
    LET op == "UpdateExtensionImage" IN
    IF failAt = "Marshal" THEN Abort(op, failAt, NoIcon, <<>>, FALSE, FALSE)
    ELSE IF failAt = "NewRequest"
    THEN Abort(op, failAt, NoIcon, <<>>, FALSE, FALSE)
    ELSE ReturnRequestErr(op, failAt, NoIcon,
                          Request("PUT", "pictures/id", JsonPayload),
                          FALSE, FALSE)

\* return list[0], nil guarded by a length check that reports an error.
FirstImageChecked(op, failAt, resp, req) ==
    IF Len(resp) = 0
    THEN Result(op, failAt, NoIcon, resp, "error", Wrap(op, "EmptyList"),
                <<req>>, TRUE, FALSE, 0)
    ELSE Result(op, failAt, NoIcon, resp, "ok", NoErr, <<req>>,
                TRUE, FALSE, resp[1])

\* return list[0], nil: indexing an empty slice is a run-time panic
\* (index out of range), not an error value.
FirstImage(op, failAt, resp, req) ==
    IF Len(resp) = 0
    THEN Result(op, failAt, NoIcon, resp, "panic", NoErr, <<req>>,
                TRUE, FALSE, 0)
    ELSE Result(op, failAt, NoIcon, resp, "ok", NoErr, <<req>>,
                TRUE, FALSE, resp[1])

\* The file is opened at line 366 and no path closes it.  resp is the list
\* the response body decodes to.
AddExtensionImage(failAt, resp) ==
    LET op == "AddExtensionImage"
        req == Request("POST", "pictures", FilePayload) IN
    IF failAt = "CreateFormFile"
    THEN Abort(op, failAt, NoIcon, resp, FALSE, FALSE)
    ELSE IF failAt = "Open" THEN Abort(op, failAt, NoIcon, resp, FALSE, FALSE)
    ELSE IF failAt = "Copy" THEN Abort(op, failAt, NoIcon, resp, TRUE, FALSE)
    ELSE IF failAt = "WriterClose"
    THEN Abort(op, failAt, NoIcon, resp, TRUE, FALSE)
    ELSE IF failAt = "NewRequest"
    THEN Abort(op, failAt, NoIcon, resp, TRUE, FALSE)
    ELSE IF failAt = "doRequest"
    THEN Result(op, failAt, NoIcon, resp, "error", Wrap(op, "doRequest"),
                <<req>>, TRUE, FALSE, 0)
    ELSE IF failAt = "Unmarshal"
    THEN Result(op, failAt, NoIcon, resp, "error", Wrap(op, "Unmarshal"),
                <<req>>, TRUE, FALSE, 0)
    ELSE FirstImage(op, failAt, resp, req)

TriggerCodeReview(failAt) ==
    LET op == "TriggerCodeReview" IN
    IF failAt = "NewRequest" THEN Abort(op, failAt, NoIcon, <<>>, FALSE, FALSE)
    ELSE ReturnRequestErr(op, failAt, NoIcon,
                          Request("POST", "reviews", NoPayload), FALSE, FALSE)

GetBinaryReviewResults(failAt) ==
    LET op == "GetBinaryReviewResults" IN
    IF failAt = "NewRequest" THEN Abort(op, failAt, NoIcon, <<>>, FALSE, FALSE)
    ELSE DecodeResponse(op, failAt, Request("GET", "checkresults", NoPayload),
                        FALSE, FALSE)

\* A call returns (or panics): its effect becomes visible, and a handle it
\* opened and did not close stays open in the process.
Return(r) ==
    /\ calls < MaxCalls
    /\ last' = r
    /\ calls' = calls + 1
    /\ openHandles' = openHandles + (IF r.opened /\ ~r.closed THEN 1 ELSE 0)
    /\ UNCHANGED <<reviewVars, filterVars>>

NoCall == Result("none", "none", NoIcon, <<>>, "none", NoErr, <<>>,
                 FALSE, FALSE, 0)

CallGetExtensionBinaries ==
    \E failAt \in FailChoices : Return(GetExtensionBinaries(failAt))
CallUpdateExtensionBinaryInfo ==
    \E failAt \in FailChoices : Return(UpdateExtensionBinaryInfo(failAt))
CallCreateExtensionBinary ==
    \E failAt \in FailChoices : Return(CreateExtensionBinary(failAt))
CallUpdateExtensionBinaryFile ==
    \E failAt \in FailChoices : Return(UpdateExtensionBinaryFile(failAt))
CallUpdateExtensionIcon ==
    \E failAt \in FailChoices, icon \in Icons :
        Return(UpdateExtensionIcon(failAt, icon))
CallGetExtensionImages ==
    \E failAt \in FailChoices : Return(GetExtensionImages(failAt))
CallDeleteExtensionImages ==
    \E failAt \in FailChoices : Return(DeleteExtensionImages(failAt))
CallUpdateExtensionImage ==
    \E failAt \in FailChoices : Return(UpdateExtensionImage(failAt))
CallAddExtensionImage ==
    \E failAt \in FailChoices, resp \in Responses :
        Return(AddExtensionImage(failAt, resp))
CallTriggerCodeReview ==
    \E failAt \in FailChoices : Return(TriggerCodeReview(failAt))
CallGetBinaryReviewResults ==
    \E failAt \in FailChoices : Return(GetBinaryReviewResults(failAt))

\* ------------------------------------------------------------------------
\* BinaryReviewResult
\* ------------------------------------------------------------------------

\* Finite sequences over S of length at most n.
SeqUpTo(S, n) == UNION {[1..k -> S] : k \in 0..n}

\* A message is a string, modelled as its sequence of lexical tokens: text
\* runs, the character "&", and HTML tags.
IsTag(t) ==
    t = "<b>" \/ t = "</b>" \/ t = "<script>" \/ t = "</script>"
Messages == { <<"<script>", "x", "</script>", "hello">>,
              <<"a", "<b>", "&", "</b>">>,
              <<>> }

TypeIds == {2, SuccessTypeId, PendingTypeId}
TypeNames == {SuccessTypeName, "automaticcodereviewfailed"}
SubCheckNames == {"phpstan", "zip"}

SubChecks ==
    [SubCheck : SubCheckNames, Passed : BOOLEAN, HasWarnings : BOOLEAN,
     Message : Messages]

Reviews ==
    [Type : [Id : TypeIds, Name : TypeNames],
     SubCheckResults : SeqUpTo(SubChecks, MaxSubChecks)]

NoReview ==
    [Type |-> [Id |-> 0, Name |-> ""], SubCheckResults |-> <<>>]

\* HasPassed that looks at the numeric discriminant only.
HasPassedIdOnly(r) == r.Type.Id = SuccessTypeId

HasPassed(r) ==
    r.Type.Id = SuccessTypeId \/ r.Type.Name = SuccessTypeName

IsPending(r) == r.Type.Id = PendingTypeId

RECURSIVE HasWarningsFrom(_, _)
\* the range loop of HasWarnings, from index i on
HasWarningsFrom(results, i) ==
    IF i > Len(results) THEN FALSE
    ELSE IF results[i].HasWarnings THEN TRUE
    ELSE HasWarningsFrom(results, i + 1)

\* HasWarnings that reports failed sub-checks instead of the warnings flag.
HasWarningsFromFailed(r) ==
    \E i \in 1..Len(r.SubCheckResults) : ~r.SubCheckResults[i].Passed

HasWarnings(r) == HasWarningsFrom(r.SubCheckResults, 1)

\* html escaping of a text token
Escape(t) == IF t = "&" THEN "&amp;" ELSE t

RECURSIVE SanitizeFrom(_, _, _)
\* bluemonday.NewPolicy().Sanitize: the empty policy allows no element, so
\* every tag is dropped, the content of a script element is dropped with it,
\* and the remaining text is escaped.
SanitizeFrom(msg, i, skipping) ==
    IF i > Len(msg) THEN <<>>
    ELSE IF msg[i] = "<script>" THEN SanitizeFrom(msg, i + 1, TRUE)
    ELSE IF msg[i] = "</script>" THEN SanitizeFrom(msg, i + 1, FALSE)
    ELSE IF IsTag(msg[i]) THEN SanitizeFrom(msg, i + 1, skipping)
    ELSE IF skipping THEN SanitizeFrom(msg, i + 1, skipping)
    ELSE <<Escape(msg[i])>> \o SanitizeFrom(msg, i + 1, skipping)

Sanitize(msg) == SanitizeFrom(msg, 1, FALSE)

\* fmt.Sprintf("=== %s ===\n", result.SubCheck)
Header(name) == <<"=== ", name, " ===", "\n">>

\* fmt.Sprintf("%s\n\n", p.Sanitize(result.Message))
Body(msg) == Sanitize(msg) \o <<"\n", "\n">>

\* The loop condition of GetSummary skipping every sub-check that passed,
\* whatever its warnings flag.
SkippedIfPassed(result) == result.Passed

\* if result.Passed && !result.HasWarnings { continue }
Skipped(result) == result.Passed /\ ~result.HasWarnings

RECURSIVE SummaryFrom(_, _, _)
\* the range loop of GetSummary, from index i on, message accumulated so far
SummaryFrom(results, i, message) ==
    IF i > Len(results) THEN message
    ELSE IF Skipped(results[i]) THEN SummaryFrom(results, i + 1, message)
    ELSE SummaryFrom(results, i + 1,
                     message \o Header(results[i].SubCheck)
                             \o Body(results[i].Message))

GetSummary(r) == SummaryFrom(r.SubCheckResults, 1, <<>>)

\* Return values of the methods: a bool or a string.
RetBool(b) == [b |-> b, s |-> <<>>]
RetText(s) == [b |-> FALSE, s |-> s]

Apply(method, ret) ==
    /\ rmethod' = method
    /\ rret' = ret
    /\ UNCHANGED <<review, opVars, filterVars>>

ApplyHasPassed == Apply("HasPassed", RetBool(HasPassed(review)))
ApplyIsPending == Apply("IsPending", RetBool(IsPending(review)))
ApplyHasWarnings == Apply("HasWarnings", RetBool(HasWarnings(review)))
ApplyGetSummary == Apply("GetSummary", RetText(GetSummary(review)))

\* ------------------------------------------------------------------------
\* SoftwareVersionList
\* ------------------------------------------------------------------------

\* A version name is a string, modelled as its sequence of characters.
IsDigit(ch) == ch = "4" \/ ch = "5" \/ ch = "6"
DigitValue(d) == IF d = "4" THEN 4 ELSE IF d = "5" THEN 5 ELSE 6

VersionNames == { <<"6", ".", "4">>, <<"6", ".", "5">>, <<"6">>,
                  <<"x", ".", "4">>, <<"6", ".">> }

SoftwareVersions == [Name : VersionNames, Selectable : BOOLEAN]

\* version.NewVersion: dot-separated numeric segments, anything else is an
\* error.
NewVersion(name) ==
    LET n == Len(name)
        wellFormed ==
            /\ n % 2 = 1
            /\ \A i \in 1..n :
                  IF i % 2 = 1 THEN IsDigit(name[i]) ELSE name[i] = "."
    IN  IF wellFormed
        THEN [err |-> FALSE,
              segments |-> [k \in 1..((n + 1) \div 2) |->
                               DigitValue(name[2 * k - 1])]]
        ELSE [err |-> TRUE, segments |-> <<>>]

\* segment i of a version, missing segments count as 0
Segment(v, i) == IF i <= Len(v) THEN v[i] ELSE 0

RECURSIVE CompareFrom(_, _, _)
\* Version.Compare: -1, 0 or 1 by the first differing segment
CompareFrom(a, b, i) ==
    IF i > Len(a) /\ i > Len(b) THEN 0
    ELSE IF Segment(a, i) < Segment(b, i) THEN -1
    ELSE IF Segment(a, i) > Segment(b, i) THEN 1
    ELSE CompareFrom(a, b, i + 1)

Compare(a, b) == CompareFrom(a, b, 1)

\* one comparator clause of a constraint
ClauseHolds(clause, v) ==
    IF clause.op = ">=" THEN Compare(v, clause.v) >= 0
    ELSE IF clause.op = "<" THEN Compare(v, clause.v) < 0
    ELSE Compare(v, clause.v) = 0

\* Constraints.Check: every comma-separated clause holds
Check(c, v) == \A i \in 1..Len(c) : ClauseHolds(c[i], v)

Constraints == { << [op |-> ">=", v |-> <<6, 4>>] >>,
                 << [op |-> ">=", v |-> <<6, 4>>],
                    [op |-> "<", v |-> <<6, 5>>] >>,
                 << [op |-> "<", v |-> <<6, 4>>] >>,
                 << [op |-> "=", v |-> <<6, 5, 0>>] >> }

\* The body of the filter loops without the Selectable test.
KeptIgnoringSelectable(swVersion, c) ==
    LET parsed == NewVersion(swVersion.Name) IN
    IF parsed.err THEN FALSE
    ELSE Check(c, parsed.segments)

\* The body of both filter loops: does the entry reach append?
Kept(swVersion, c) ==
    IF ~swVersion.Selectable THEN FALSE
    ELSE LET parsed == NewVersion(swVersion.Name) IN
         IF parsed.err THEN FALSE
         ELSE Check(c, parsed.segments)

RECURSIVE FilterFrom(_, _, _, _)
\* the range loop of FilterOnVersion, from index i on
FilterFrom(l, c, i, newList) ==
    IF i > Len(l) THEN newList
    ELSE IF Kept(l[i], c) THEN FilterFrom(l, c, i + 1, Append(newList, l[i]))
    ELSE FilterFrom(l, c, i + 1, newList)

FilterOnVersion(l, c) == FilterFrom(l, c, 1, <<>>)

RECURSIVE FilterNamesFrom(_, _, _, _)
\* the range loop of FilterOnVersionStringList, from index i on
FilterNamesFrom(l, c, i, newList) ==
    IF i > Len(l) THEN newList
    ELSE IF Kept(l[i], c)
    THEN FilterNamesFrom(l, c, i + 1, Append(newList, l[i].Name))
    ELSE FilterNamesFrom(l, c, i + 1, newList)

FilterOnVersionStringList(l, c) == FilterNamesFrom(l, c, 1, <<>>)

ApplyFilter(method, ret) ==
    /\ fmethod' = method
    /\ fret' = ret
    /\ UNCHANGED <<list, constraint, opVars, reviewVars>>

ApplyFilterOnVersion ==
    ApplyFilter("FilterOnVersion", FilterOnVersion(list, constraint))
ApplyFilterOnVersionStringList ==
    ApplyFilter("FilterOnVersionStringList",
                FilterOnVersionStringList(list, constraint))

\* ------------------------------------------------------------------------
\* Specifications
\* ------------------------------------------------------------------------
OpsIdle == last = NoCall /\ calls = 0 /\ openHandles = 0
ReviewIdle == review = NoReview /\ rmethod = "none" /\ rret = RetBool(FALSE)
FilterIdle == list = <<>> /\ constraint = <<>> /\ fmethod = "none" /\ fret = <<>>

Init == OpsIdle /\ ReviewIdle /\ FilterIdle

Next ==
    \/ CallGetExtensionBinaries
    \/ CallUpdateExtensionBinaryInfo
    \/ CallCreateExtensionBinary
    \/ CallUpdateExtensionBinaryFile
    \/ CallUpdateExtensionIcon
    \/ CallGetExtensionImages
    \/ CallDeleteExtensionImages
    \/ CallUpdateExtensionImage
    \/ CallAddExtensionImage
    \/ CallTriggerCodeReview
    \/ CallGetBinaryReviewResults

Spec == Init /\ [][Next]_vars

InitReview ==
    /\ OpsIdle
    /\ FilterIdle
    /\ review \in Reviews
    /\ rmethod = "none"
    /\ rret = RetBool(FALSE)

NextReview ==
    \/ ApplyHasPassed
    \/ ApplyIsPending
    \/ ApplyHasWarnings
    \/ ApplyGetSummary

SpecReview == InitReview /\ [][NextReview]_vars

InitFilter ==
    /\ OpsIdle
    /\ ReviewIdle
    /\ list \in SeqUpTo(SoftwareVersions, MaxLen)
    /\ constraint \in Constraints
    /\ fmethod = "none"
    /\ fret = <<>>

NextFilter ==
    \/ ApplyFilterOnVersion
    \/ ApplyFilterOnVersionStringList

SpecFilter == InitFilter /\ [][NextFilter]_vars

\* ------------------------------------------------------------------------
\* Properties
\* ------------------------------------------------------------------------

\* the names of a list of SoftwareVersion records, in order
NamesOf(l) == [i \in 1..Len(l) |-> l[i].Name]

\* the entries a filter must return: selectable, parsable, satisfying
Eligible(l, c) ==
    LET Test(sw) ==
            /\ sw.Selectable = TRUE
            /\ ~NewVersion(sw.Name).err
            /\ Check(c, NewVersion(sw.Name).segments)
    IN  SelectSeq(l, Test)

\* C1: FilterOnVersion returns exactly the entries that are selectable, whose
\* name parses as a version and that satisfy the constraint, in their
\* original relative order; FilterOnVersionStringList returns exactly the
\* names of those same entries in the same order.
C1FilterExact ==
    /\ fmethod = "FilterOnVersion" => fret = Eligible(list, constraint)
    /\ fmethod = "FilterOnVersionStringList" =>
           fret = NamesOf(Eligible(list, constraint))

\* The example of the specification: 6.4 selectable, 6.5 not selectable, an
\* unparsable selectable name, constraint >=6.4: the result is exactly [6.4].
C1Witness ==
    /\ fmethod = "FilterOnVersion"
    /\ constraint = << [op |-> ">=", v |-> <<6, 4>>] >>
    /\ list = << [Name |-> <<"6", ".", "4">>, Selectable |-> TRUE],
                 [Name |-> <<"6", ".", "5">>, Selectable |-> FALSE],
                 [Name |-> <<"x", ".", "4">>, Selectable |-> TRUE] >>
    /\ fret = << [Name |-> <<"6", ".", "4">>, Selectable |-> TRUE] >>

\* C2: Pending and Succeeded exclude each other: for no result, whatever its
\* type id and type name, are IsPending() and HasPassed() both true.
C2PendingExcludesPassed ==
    (rmethod = "IsPending" /\ rret.b) => ~HasPassed(review)

\* C3: HasPassed() is true if and only if the type id is 3 or the type name
\* is "automaticcodereviewsucceeded"; nothing else influences it.
C3PassedIff ==
    rmethod = "HasPassed" =>
        (rret.b <=> (review.Type.Id = 3
                     \/ review.Type.Name = "automaticcodereviewsucceeded"))

\* passed by the name alone, with failed sub-checks carrying warnings
C3Witness ==
    /\ rmethod = "HasPassed"
    /\ rret.b
    /\ review.Type.Id # 3
    /\ Len(review.SubCheckResults) > 0
    /\ ~review.SubCheckResults[1].Passed

\* C4: whenever an operation that opened a local file returns, the file is
\* closed.
C4HandlesReleased == last.opened => last.closed

\* C5: every error an operation returns carries the label of that operation.
C5ErrorsLabelled == last.outcome = "error" => last.err.label = last.op

\* step is one of the fallible steps op performs before it issues its request
IsLocalStep(op, icon, step) ==
    \/ /\ \/ op = "GetExtensionBinaries"
          \/ op = "GetExtensionImages"
          \/ op = "DeleteExtensionImages"
          \/ op = "TriggerCodeReview"
          \/ op = "GetBinaryReviewResults"
       /\ step = "NewRequest"
    \/ /\ \/ op = "UpdateExtensionBinaryInfo"
          \/ op = "CreateExtensionBinary"
          \/ op = "UpdateExtensionImage"
       /\ (step = "Marshal" \/ step = "NewRequest")
    \/ /\ (op = "UpdateExtensionBinaryFile" \/ op = "AddExtensionImage")
       /\ \/ step = "CreateFormFile"
          \/ step = "Open"
          \/ step = "Copy"
          \/ step = "WriterClose"
          \/ step = "NewRequest"
    \/ /\ op = "UpdateExtensionIcon"
       /\ \/ step = "CreateFormFile"
          \/ step = "Open"
          \/ step = "Decode"
          \/ step = "FileClose"
          \/ step = "WriterClose"
          \/ step = "NewRequest"
          \/ /\ icon.w = 256 /\ icon.h = 256
             /\ (step = "Seek" \/ step = "Copy")
          \/ /\ (icon.w # 256 \/ icon.h # 256)
             /\ step = "Encode"

\* C6: a call issues exactly one remote request when all of its local steps
\* succeed and none at all when one of them fails; a failed request is not
\* issued again.
C6SingleShot ==
    last.op # "none" =>
        Len(last.requests) =
            (IF IsLocalStep(last.op, last.icon, last.failAt) THEN 0 ELSE 1)

\* an undecodable icon: the call returned an error and nothing was uploaded
C6Witness ==
    /\ last.op = "UpdateExtensionIcon"
    /\ last.failAt = "Decode"
    /\ last.outcome = "error"
    /\ last.requests = <<>>

\* C7: whenever UpdateExtensionIcon issues its upload, the payload is 256x256:
\* the original bytes when the source is already 256x256, otherwise a PNG
\* encoding of a fresh 256x256 canvas, whatever the source format.
C7IconNormalized ==
    (last.op = "UpdateExtensionIcon" /\ Len(last.requests) = 1) =>
        LET p == last.requests[1].payload IN
        /\ p.w = 256 /\ p.h = 256
        /\ IF last.icon.w = 256 /\ last.icon.h = 256
           THEN p = [src |-> "file", format |-> last.icon.format,
                     w |-> last.icon.w, h |-> last.icon.h]
           ELSE p = [src |-> "encoded", format |-> "png",
                     w |-> 256, h |-> 256]

\* a 512x256 JPEG went out as a 256x256 PNG
C7Witness ==
    /\ last.op = "UpdateExtensionIcon"
    /\ last.icon = [format |-> "jpeg", w |-> 512, h |-> 256]
    /\ Len(last.requests) = 1
    /\ last.requests[1].payload.format = "png"
    /\ last.outcome = "ok"

RECURSIVE ExpectedSummary(_)
\* one block per reported sub-check: header, sanitized message, blank line
ExpectedSummary(reported) ==
    IF reported = <<>> THEN <<>>
    ELSE <<"=== ", Head(reported).SubCheck, " ===", "\n">>
         \o Sanitize(Head(reported).Message)
         \o <<"\n", "\n">>
         \o ExpectedSummary(Tail(reported))

\* C8: GetSummary returns, in sub-check order, one block per sub-check that
\* failed or carries warnings (header, sanitized message without markup,
\* blank line); the summary is empty iff every sub-check passed without
\* warnings.
C8SummaryBlocks ==
    rmethod = "GetSummary" =>
        LET Reported(r) == ~r.Passed \/ r.HasWarnings
            subs == review.SubCheckResults
        IN  /\ rret.s = ExpectedSummary(SelectSeq(subs, Reported))
            /\ \A i \in 1..Len(rret.s) : ~IsTag(rret.s[i])
            /\ (rret.s = <<>>) <=>
                   (\A i \in 1..Len(subs) :
                        subs[i].Passed /\ ~subs[i].HasWarnings)

\* The example of the specification: one passed sub-check without warnings,
\* one failed sub-check with message <script>x</script>hello.
C8Witness ==
    /\ rmethod = "GetSummary"
    /\ Len(review.SubCheckResults) = 2
    /\ review.SubCheckResults[1].Passed
    /\ ~review.SubCheckResults[1].HasWarnings
    /\ review.SubCheckResults[2] =
           [SubCheck |-> "zip", Passed |-> FALSE, HasWarnings |-> FALSE,
            Message |-> <<"<script>", "x", "</script>", "hello">>]
    /\ rret.s = <<"=== ", "zip", " ===", "\n", "hello", "\n", "\n">>

\* C9: HasWarnings() is true if and only if at least one sub-check has its
\* warnings flag set, whatever its passed flag and the review type.
C9WarningsIff ==
    rmethod = "HasWarnings" =>
        (rret.b <=> (\E i \in 1..Len(review.SubCheckResults) :
                         review.SubCheckResults[i].HasWarnings))

\* a passed review whose only sub-check passed and carries warnings
C9Witness ==
    /\ rmethod = "HasWarnings"
    /\ rret.b
    /\ HasPassed(review)
    /\ Len(review.SubCheckResults) = 1
    /\ review.SubCheckResults[1].Passed

\* C10: after a successful upload request whose response decodes to a list,
\* AddExtensionImage returns the first element; on an empty list the call
\* crashes instead of returning an error value.
C10FirstOrCrash ==
    (last.op = "AddExtensionImage" /\ last.failAt = "none") =>
        IF Len(last.resp) > 0
        THEN last.outcome = "ok" /\ last.value = last.resp[1]
        ELSE last.outcome = "panic" /\ last.err = NoErr

\* the server answered with an empty list and the call crashed
C10Witness ==
    /\ last.op = "AddExtensionImage"
    /\ last.failAt = "none"
    /\ last.resp = <<>>
    /\ Len(last.requests) = 1
    /\ last.outcome = "panic"
====
